---- MODULE Spec2Model ----
(***************************************************************************)
(* Model of met-csv-to-sqlite.py: a one-shot importer that reads a CSV of  *)
(* timestamped GPS/heading records, converts the Time column to a Unix     *)
(* epoch, drops rows with repeated timestamps and replaces the contents of *)
(* the SQLite table location_data with the result.                         *)
(*                                                                         *)
(* One behaviour is a series of runs of the program against the same       *)
(* database file; every run is handed a CSV file by the environment.       *)
(***************************************************************************)
EXTENDS Integers, Sequences, FiniteSets, TLC

\* ------------------------------------------------------------------ bounds
\* Longest CSV body (data rows) the environment hands to one run.
MaxRows == 2
\* Number of runs of the program against the same database file.
MaxRuns == 2
\* Longest candidate sequence of a direct call of insert_data_to_database.
MaxCand == 3

\* ------------------------------------------------------ python values
\* Python's None and an optional value: <<>> is None, <<v>> is the value v.
None == <<>>

Some(v) == <<v>>

\* ---------------------------------------------------- time conversion
\* datetime.strptime(time_str, '%d-%b-%Y %H:%M:%S') on the Time texts of the
\* model: the parsed fields, or None where strptime raises ValueError.  %b is
\* matched without regard to case.
strptime(time_str) ==
  CASE time_str = "15-Mar-2023 14:30:25" ->
         Some([year |-> 2023, month |-> 3, day |-> 15, hour |-> 14, minute |-> 30, second |-> 25])
    [] time_str = "15-mar-2023 14:30:25" ->
         Some([year |-> 2023, month |-> 3, day |-> 15, hour |-> 14, minute |-> 30, second |-> 25])
    [] time_str = "15-Mar-2023 14:31:00" ->
         Some([year |-> 2023, month |-> 3, day |-> 15, hour |-> 14, minute |-> 31, second |-> 0])
    [] OTHER -> None

\* Days from 1970-01-01 to the civil date y-m-d (proleptic Gregorian).
days_from_civil(y, m, d) ==
  LET yy  == IF m <= 2 THEN y - 1 ELSE y
      era == yy \div 400
      yoe == yy - era * 400
      mp  == IF m > 2 THEN m - 3 ELSE m + 9
      doy == (153 * mp + 2) \div 5 + d - 1
      doe == yoe * 365 + yoe \div 4 - yoe \div 100 + doy
  IN  era * 146097 + doe - 719468

\* int(dt.timestamp()) for a naive datetime, the process running in UTC.
timestamp(dt) ==
  days_from_civil(dt.year, dt.month, dt.day) * 86400
    + dt.hour * 3600 + dt.minute * 60 + dt.second

\* convert_time_to_epoch: the epoch as an optional integer, None on ValueError.
convert_time_to_epoch(time_str) ==
  LET dt == strptime(time_str)
  IN  IF dt = None THEN None ELSE Some(timestamp(dt[1]))

\* ------------------------------------------------- numeric conversion
\* str.strip() on the numeric texts of the model.
strip(s) ==
  CASE s = " "       -> ""
    [] s = " -122.1" -> "-122.1"
    [] OTHER         -> s

\* Texts float() accepts (after stripping), with their value in tenths.
FloatValue(t) ==
  CASE t = "10.5"   -> Some(105)
    [] t = "11.0"   -> Some(110)
    [] t = "45.0"   -> Some(450)
    [] t = "45.1"   -> Some(451)
    [] t = "-122.0" -> Some(-1220)
    [] t = "-122.1" -> Some(-1221)
    [] OTHER        -> None

\* float(s) raises ValueError (float strips surrounding whitespace itself).
RaisesValueError(s) == FloatValue(strip(s)) = None

\* float(row[c]) if row[c].strip() else None, where float does not raise.
ConvertField(s) == IF strip(s) = "" THEN None ELSE FloatValue(strip(s))

\* Variant: a field that is not numeric becomes None instead of raising.
NumericError_never(row) == FALSE

\* One of the three conversions of lines 129-131 raises ValueError.
NumericError(row) ==
  \E c \in {"gps_hdt", "PosLat", "PosLon"} :
     strip(row[c]) # "" /\ RaisesValueError(row[c])

\* The dictionary appended at lines 133-138.
LocationRow(epoch_time, row) ==
  [timestamp |-> epoch_time,
   latitude  |-> ConvertField(row["PosLat"]),
   longitude |-> ConvertField(row["PosLon"]),
   heading   |-> ConvertField(row["gps_hdt"])]

\* ------------------------------------------------------------ inputs
required_columns == {"Time", "gps_hdt", "PosLat", "PosLon"}

\* Header lines of the CSV files: the required columns, the required columns
\* and a time_utc column, and a header that lacks PosLon.
Headers ==
  { required_columns,
    required_columns \cup {"time_utc"},
    required_columns \ {"PosLon"} }

\* Time texts: two instants, a second spelling of the first, and a text
\* strptime rejects.
TimeTexts ==
  {"15-Mar-2023 14:30:25", "15-Mar-2023 14:31:00", "15-mar-2023 14:30:25", "bad-date"}

\* Heading, latitude and longitude texts: numeric, blank, not numeric.
FieldTexts ==
  [gps_hdt |-> <<"11.0", "", "abc">>,
   PosLat  |-> <<"45.1", " ", "4x">>,
   PosLon  |-> <<" -122.1", "", "n/a">>]

FullRow(t, h, la, lo) ==
  [Time |-> t, gps_hdt |-> h, PosLat |-> la, PosLon |-> lo, time_utc |-> t]

\* Lines of a CSV body, over all columns: the first instant with at most one
\* of the three fields blank or not numeric, the second instant with each
\* heading text, and the other two Time texts with numeric fields of their own.
BaseRows ==
  { FullRow("15-Mar-2023 14:30:25", FieldTexts.gps_hdt[x[1]], FieldTexts.PosLat[x[2]],
            FieldTexts.PosLon[x[3]]) :
      x \in { y \in (1..3) \X (1..3) \X (1..3) :
                Cardinality({k \in 1..3 : y[k] # 1}) <= 1 } }
  \cup
  { FullRow("15-Mar-2023 14:31:00", FieldTexts.gps_hdt[a], "45.1", " -122.1") :
      a \in 1..3 }
  \cup
  { FullRow(t, "10.5", "45.0", "-122.0") : t \in {"15-mar-2023 14:30:25", "bad-date"} }

\* csv.DictReader gives every row the keys of the header line.
RowsFor(header) == { [c \in header |-> b[c]] : b \in BaseRows }

RowSeqs(header) == UNION { [1..n -> RowsFor(header)] : n \in 0..MaxRows }

\* What a run finds at csv_file_path: nothing, a file that cannot be read or
\* parsed, or a header line followed by rows.
Files ==
  { [kind |-> k, header |-> {}, rows |-> <<>>] : k \in {"missing", "unreadable"} }
  \cup
  UNION { { [kind |-> "ok", header |-> h, rows |-> rs] : rs \in RowSeqs(h) } :
          h \in Headers }

\* ------------------------------------------------------------- state
VARIABLES
  pc,                   \* where the run stands in main / import_csv_to_sqlite
  run,                  \* number of the current run of the program
  file,                 \* what this run finds at csv_file_path
  gc_prompt,            \* this process finalizes an unreferenced object at once
  table_exists,         \* location_data exists in the database file
  table,                \* the rows of location_data
  data,                 \* the list read_csv_file returned
  i,                    \* 1-based position of the transformer loop in data
  processed_data,       \* process_csv_data's output list
  conversion_errors,    \* process_csv_data's counter of skipped bad rows
  duplicate_timestamps, \* process_csv_data's set of epochs seen
  duplicates_found,     \* process_csv_data's counter of skipped duplicates
  outcome,              \* how the run's pipeline ended, "running" until then
  insert_error,         \* exception insert_data_to_database caught, if any
  ran,                  \* calls of each stage in this run
  open_conns,           \* connections this process opened and has not released
  table_before,         \* rows of location_data when the run started
  rerun,                \* this run repeats the previous run's successful import
  prev_table            \* rows of location_data after that previous import

vars ==
  <<pc, run, file, gc_prompt, table_exists, table, data, i, processed_data,
    conversion_errors, duplicate_timestamps, duplicates_found, outcome,
    insert_error, ran, open_conns, table_before, rerun, prev_table>>

Stages == {"create", "read", "validate", "process", "insert", "verify"}

db_vars == <<table_exists, table>>

loop_vars ==
  <<i, processed_data, conversion_errors, duplicate_timestamps, duplicates_found>>

env_vars == <<run, file, gc_prompt, table_before, rerun, prev_table>>

Call(stage) == ran' = [ran EXCEPT ![stage] = @ + 1]

\* A connection object that goes out of scope without close(): released at
\* once where the runtime counts references, still open otherwise.
Unreferenced(conns) == IF gc_prompt THEN conns ELSE conns + 1

\* --------------------------------------------------------- the stages
\* Variant: the table is dropped and created anew on every run.
CreateTableIfNotExists_fresh(exists, tbl) == {}

\* CREATE TABLE IF NOT EXISTS location_data (lines 47-55): the rows of the
\* table afterwards; an existing table keeps its rows.
CreateTableIfNotExists(exists, tbl) == IF exists THEN tbl ELSE {}

\* create_database_table: the with block commits and leaves the connection
\* unclosed.
CreateDatabaseTable ==
  /\ pc = "create"
  /\ Call("create")
  /\ table_exists' = TRUE
  /\ table' = CreateTableIfNotExists(table_exists, table)
  /\ open_conns' = Unreferenced(open_conns)
  /\ pc' = "exists"
  /\ UNCHANGED <<env_vars, data, loop_vars, outcome, insert_error>>

\* main, lines 310-317: os.path.exists(csv_file_path).
CheckCsvExists ==
  /\ pc = "exists"
  /\ IF file.kind = "missing"
       THEN pc' = "done" /\ outcome' = "not_found"
       ELSE pc' = "read" /\ outcome' = outcome
  /\ UNCHANGED <<env_vars, db_vars, data, loop_vars, insert_error, ran, open_conns>>

\* read_csv_file as called at lines 213-215: None (an exception was caught)
\* or the list of rows, which is empty for a header-only file.
ReadCsvFile ==
  /\ pc = "read"
  /\ Call("read")
  /\ IF file.kind = "ok"
       THEN data' = file.rows /\ pc' = "validate" /\ outcome' = outcome
       ELSE data' = data /\ pc' = "report" /\ outcome' = "read_failed"
  /\ UNCHANGED <<env_vars, db_vars, loop_vars, insert_error, open_conns>>

\* Required columns the first record lacks (line 92).
missing_columns(d) == required_columns \ DOMAIN d[1]

\* Variant: the check for an empty list is missing.
validate_csv_data_accepts_empty(d) == d = <<>> \/ missing_columns(d) = {}

validate_csv_data(d) == d # <<>> /\ missing_columns(d) = {}

\* Lines 218-219.
ValidateCsvData ==
  /\ pc = "validate"
  /\ Call("validate")
  /\ IF validate_csv_data(data)
       THEN pc' = "transform" /\ outcome' = outcome
       ELSE /\ pc' = "report"
            /\ outcome' = IF data = <<>> THEN "no_data_found" ELSE "missing_columns"
  /\ UNCHANGED <<env_vars, db_vars, data, loop_vars, insert_error, open_conns>>

\* process_csv_data, lines 104-109: the loop's variables.
ProcessBegin ==
  /\ pc = "transform"
  /\ Call("process")
  /\ i' = 1
  /\ processed_data' = <<>>
  /\ conversion_errors' = 0
  /\ duplicate_timestamps' = {}
  /\ duplicates_found' = 0
  /\ pc' = "process"
  /\ UNCHANGED <<env_vars, db_vars, data, outcome, insert_error, open_conns>>

\* The warning of line 122 reads row['time_utc']: KeyError without the column.
DuplicateWarningRaises(row) == "time_utc" \notin DOMAIN row

\* Variant: the membership test never finds the epoch.
IsDuplicate_never(epoch_time, seen) == FALSE

\* A row's epoch is in the set of epochs seen (line 120).
IsDuplicate(epoch_time, seen) == epoch_time \in seen

\* One iteration of the loop of lines 111-142 on row, from loop state st.
ProcessRowStep(row, st) ==
  LET epoch_time == convert_time_to_epoch(row["Time"])
  IN  IF epoch_time = None
        THEN [st EXCEPT !.conversion_errors = @ + 1]
      ELSE IF IsDuplicate(epoch_time[1], st.duplicate_timestamps)
        THEN [st EXCEPT !.duplicates_found = @ + 1,
                        !.raised = DuplicateWarningRaises(row)]
      ELSE IF NumericError(row)
        THEN [st EXCEPT !.duplicate_timestamps = @ \cup {epoch_time[1]},
                        !.conversion_errors = @ + 1]
      ELSE [st EXCEPT !.duplicate_timestamps = @ \cup {epoch_time[1]},
                      !.processed_data = Append(@, LocationRow(epoch_time[1], row))]

ProcessRow ==
  /\ pc = "process"
  /\ i <= Len(data)
  /\ LET st == ProcessRowStep(data[i],
                 [processed_data |-> processed_data,
                  conversion_errors |-> conversion_errors,
                  duplicate_timestamps |-> duplicate_timestamps,
                  duplicates_found |-> duplicates_found,
                  raised |-> FALSE])
     IN  /\ processed_data' = st.processed_data
         /\ conversion_errors' = st.conversion_errors
         /\ duplicate_timestamps' = st.duplicate_timestamps
         /\ duplicates_found' = st.duplicates_found
         /\ IF st.raised
              THEN pc' = "crashed" /\ outcome' = "crashed" /\ i' = i
              ELSE pc' = "process" /\ outcome' = outcome /\ i' = i + 1
  /\ UNCHANGED <<env_vars, db_vars, data, insert_error, ran, open_conns>>

\* Lines 144-151 and 223-225: the loop is over, process_csv_data returns and
\* import_csv_to_sqlite gives up on an empty list.
ProcessReturn ==
  /\ pc = "process"
  /\ i > Len(data)
  /\ IF processed_data = <<>>
       THEN pc' = "report" /\ outcome' = "no_valid_data"
       ELSE pc' = "insert" /\ outcome' = outcome
  /\ UNCHANGED <<env_vars, db_vars, data, loop_vars, insert_error, ran, open_conns>>

\* ---------------------------------------------------------- the writer
\* Variant: the DELETE is missing.
DeleteAll_nothing(tbl) == tbl

\* DELETE FROM location_data (line 176).
DeleteAll(tbl) == {}

\* timestamp INTEGER PRIMARY KEY: a row with this timestamp is in the table.
PrimaryKeyConflict(tbl, row) == \E x \in tbl : x.timestamp = row.timestamp

\* The loop of lines 179-184 from candidate k on.  Statement 1 is the DELETE,
\* statement k + 1 the INSERT of candidate k; fail_at is the statement at which
\* the store raises an error of its own (0: none).
RECURSIVE InsertEach(_, _, _, _)
InsertEach(tbl, cands, k, fail_at) ==
  IF k > Len(cands) THEN [error |-> "none", table |-> tbl]
  ELSE IF fail_at = k + 1 THEN [error |-> "OperationalError", table |-> tbl]
  ELSE IF PrimaryKeyConflict(tbl, cands[k])
    THEN [error |-> "IntegrityError", table |-> tbl]
  ELSE InsertEach(tbl \cup {cands[k]}, cands, k + 1, fail_at)

\* The body of the with block, lines 173-186: the error raised, if any, and the
\* rows the open transaction holds at that point.
Statements(tbl, cands, fail_at) ==
  IF fail_at = 1 THEN [error |-> "OperationalError", table |-> tbl]
  ELSE LET r == InsertEach(DeleteAll(tbl), cands, 1, fail_at)
       IN  IF r.error = "none" /\ fail_at = Len(cands) + 2
             THEN [error |-> "OperationalError", table |-> r.table]
             ELSE r

\* Variant: the connection is in autocommit mode, every statement is final.
ContextExit_autocommit(before, work, error) == work

\* Leaving `with sqlite3.connect(...) as conn` (line 172): the transaction is
\* committed when the body raised nothing and rolled back otherwise.
ContextExit(before, work, error) == IF error = "none" THEN work ELSE before

\* insert_data_to_database: the exception caught at lines 191-196, if any, and
\* the rows of the table afterwards.
insert_data_to_database(tbl, cands, fail_at) ==
  LET r == Statements(tbl, cands, fail_at)
  IN  [error |-> r.error, table |-> ContextExit(tbl, r.table, r.error)]

\* Line 228 of import_csv_to_sqlite.
InsertDataToDatabase ==
  /\ pc = "insert"
  /\ Call("insert")
  /\ \E fail_at \in 0..(Len(processed_data) + 2) :
       LET r == insert_data_to_database(table, processed_data, fail_at)
       IN  /\ table' = r.table
           /\ insert_error' = r.error
           /\ outcome' = IF r.error = "none" THEN "success" ELSE "insert_failed"
  /\ open_conns' = Unreferenced(open_conns)
  /\ pc' = "report"
  /\ UNCHANGED <<env_vars, table_exists, data, loop_vars>>

\* Variant: the verifier is called whatever import_csv_to_sqlite returned.
MainReport_always_verify ==
  /\ pc = "report"
  /\ pc' = "verify"
  /\ UNCHANGED <<env_vars, db_vars, data, loop_vars, outcome, insert_error, ran,
                 open_conns>>

\* main, lines 317-329: import_csv_to_sqlite has returned.
MainReport ==
  /\ pc = "report"
  /\ pc' = IF outcome = "success" THEN "verify" ELSE "done"
  /\ UNCHANGED <<env_vars, db_vars, data, loop_vars, outcome, insert_error, ran,
                 open_conns>>

\* verify_database_data: reads only.  conn.close() is reached at the
\* table-absent return (line 253) and at the end (line 284), not when a query
\* raises and the except clause of line 286 takes over.
VerifyDatabaseData ==
  /\ pc = "verify"
  /\ Call("verify")
  /\ \E query_raises \in BOOLEAN :
       open_conns' = IF query_raises THEN Unreferenced(open_conns) ELSE open_conns
  /\ pc' = "done"
  /\ UNCHANGED <<env_vars, db_vars, data, loop_vars, outcome, insert_error>>

\* ------------------------------------------------------------ the runs
\* No CSV file: what file holds between two runs.
NoFile == [kind |-> "missing", header |-> {}, rows |-> <<>>]

\* The process ends, by returning from main or by the uncaught exception:
\* its memory and its connections are gone, the database file stays.  The
\* operator may leave the CSV file of an import that succeeded in place, to
\* import it once more (again = TRUE).
ProcessExit ==
  /\ pc \in {"done", "crashed"}
  /\ \E again \in BOOLEAN :
       /\ again => outcome = "success"
       /\ rerun' = again
       /\ prev_table' = IF again THEN table ELSE {}
       /\ file' = IF again THEN file ELSE NoFile
  /\ pc' = "exited"
  /\ gc_prompt' = FALSE
  /\ table_before' = {}
  /\ data' = <<>>
  /\ i' = 0
  /\ processed_data' = <<>>
  /\ conversion_errors' = 0
  /\ duplicate_timestamps' = {}
  /\ duplicates_found' = 0
  /\ outcome' = "running"
  /\ insert_error' = "none"
  /\ ran' = [s \in Stages |-> 0]
  /\ open_conns' = 0
  /\ UNCHANGED <<run, db_vars>>

\* The program is started again on the same database file, with the CSV file
\* left in place or with another one.
NextRun ==
  /\ pc = "exited"
  /\ run < MaxRuns
  /\ run' = run + 1
  /\ IF rerun THEN file' = file ELSE file' \in Files
  /\ gc_prompt' \in BOOLEAN
  /\ table_before' = table
  /\ pc' = "create"
  /\ UNCHANGED <<db_vars, data, loop_vars, outcome, insert_error, ran, open_conns,
                 rerun, prev_table>>

\* The first run: the database file holds no table yet.
Init ==
  /\ pc = "create"
  /\ run = 1
  /\ file \in Files
  /\ gc_prompt \in BOOLEAN
  /\ table_exists = FALSE
  /\ table = {}
  /\ data = <<>>
  /\ i = 0
  /\ processed_data = <<>>
  /\ conversion_errors = 0
  /\ duplicate_timestamps = {}
  /\ duplicates_found = 0
  /\ outcome = "running"
  /\ insert_error = "none"
  /\ ran = [s \in Stages |-> 0]
  /\ open_conns = 0
  /\ table_before = {}
  /\ rerun = FALSE
  /\ prev_table = {}

Next ==
  \/ CreateDatabaseTable
  \/ CheckCsvExists
  \/ ReadCsvFile
  \/ ValidateCsvData
  \/ ProcessBegin
  \/ ProcessRow
  \/ ProcessReturn
  \/ InsertDataToDatabase
  \/ MainReport
  \/ VerifyDatabaseData
  \/ ProcessExit
  \/ NextRun

Spec == Init /\ [][Next]_vars

\* ------------------------------------- the writer called on its own
\* Rows a caller may hand to insert_data_to_database, timestamps repeated
\* or not.
CandRows ==
  { [timestamp |-> convert_time_to_epoch(t)[1], latitude |-> Some(451),
     longitude |-> Some(-1221), heading |-> h] :
      t \in {"15-Mar-2023 14:30:25", "15-Mar-2023 14:31:00"},
      h \in {None, Some(110)} }

CandSeqs == UNION { [1..n -> CandRows] : n \in 0..MaxCand }

\* Contents location_data can have: no two rows share a timestamp.
Tables ==
  { t \in SUBSET CandRows : \A x, y \in t : x.timestamp = y.timestamp => x = y }

\* insert_data_to_database is called with any candidate list on any table.
WriterInit ==
  /\ pc = "insert"
  /\ run = 1
  /\ file = NoFile
  /\ gc_prompt \in BOOLEAN
  /\ table_exists = TRUE
  /\ table \in Tables
  /\ data = <<>>
  /\ i = 0
  /\ processed_data \in CandSeqs
  /\ conversion_errors = 0
  /\ duplicate_timestamps = {}
  /\ duplicates_found = 0
  /\ outcome = "running"
  /\ insert_error = "none"
  /\ ran = [s \in Stages |-> 0]
  /\ open_conns = 0
  /\ table_before = table
  /\ rerun = FALSE
  /\ prev_table = {}

WriterNext == InsertDataToDatabase

WriterSpec == WriterInit /\ [][WriterNext]_vars

\* ------------------------------------------------------- properties
Range(s) == { s[k] : k \in 1..Len(s) }

\* process_csv_data was called and has returned.
TransformerReturned ==
  ran["process"] = 1 /\ pc \in {"insert", "report", "verify", "done"}

\* process_csv_data was called and is over, by return or by exception.
TransformerOver == TransformerReturned \/ pc = "crashed"

\* The run is over.
RunEnded == pc \in {"done", "crashed"}

\* Positions of the output rows with timestamp ts.
OutputAt(ts) == { k \in 1..Len(processed_data) : processed_data[k].timestamp = ts }

\* First position in data whose Time text converts to the epoch ts.
FirstIndex(ts) ==
  CHOOSE n \in 1..Len(data) :
    /\ convert_time_to_epoch(data[n]["Time"]) = Some(ts)
    /\ \A m \in 1..(n - 1) : convert_time_to_epoch(data[m]["Time"]) # Some(ts)

NumericColumns == {"gps_hdt", "PosLat", "PosLon"}

BlankTexts == {"", " "}

NumericTexts == {"10.5", "11.0", "45.0", "45.1", "-122.0", " -122.1"}

\* C1: for a validated record sequence in which two rows have the same Time
\* text (one that parses), process_csv_data returns normally, its output has
\* exactly one row for that timestamp, with the heading, latitude and longitude
\* of the first such row, and every later such row is counted as a duplicate.
C1_FirstOfEqualTimesKept ==
  TransformerOver =>
    \A a, b \in 1..Len(data) :
      ( /\ a < b
        /\ data[a]["Time"] = data[b]["Time"]
        /\ convert_time_to_epoch(data[a]["Time"]) # None
        /\ \A m \in 1..(a - 1) : data[m]["Time"] # data[a]["Time"] )
      => /\ pc # "crashed"
         /\ LET ts == convert_time_to_epoch(data[a]["Time"])[1]
            IN  /\ Cardinality(OutputAt(ts)) = 1
                /\ \A k \in OutputAt(ts) :
                     processed_data[k] = LocationRow(ts, data[a])
                /\ duplicates_found >=
                     Cardinality({ m \in (a + 1)..Len(data) :
                                     data[m]["Time"] = data[a]["Time"] })

\* C2: process_csv_data visits every record and returns; a row with a
\* malformed or duplicate timestamp or a malformed numeric field is skipped
\* and counted, and never ends the run by an exception.
C2_RowErrorsNeverAbort ==
  /\ pc # "crashed"
  /\ TransformerReturned =>
       /\ i = Len(data) + 1
       /\ conversion_errors + duplicates_found + Len(processed_data) = Len(data)

\* C3 as stated: whatever the table held before, a run on a CSV with a header
\* line and no data rows ends in the empty-result failure and leaves
\* location_data existing with zero rows.
C3_HeaderOnlyEmptiesTable ==
  (pc = "done" /\ file.kind = "ok" /\ file.rows = <<>>)
    => /\ outcome = "no_valid_data"
       /\ table_exists
       /\ table = {}

\* C3 amended: a run on a CSV with a header line and no data rows fails in the
\* validator (no data found), the transformer and the writer are not called,
\* and location_data exists with exactly the rows it held before the run.
C3_HeaderOnlyKeepsTable ==
  (pc = "done" /\ file.kind = "ok" /\ file.rows = <<>>)
    => /\ outcome = "no_data_found"
       /\ ran["process"] = 0
       /\ ran["insert"] = 0
       /\ table_exists
       /\ table = table_before

\* A header-only run has ended on a table that held rows.
C3_Witness ==
  pc = "done" /\ file.kind = "ok" /\ file.rows = <<>> /\ table_before # {}

C5_AllOrNothing ==
  pc = "report" =>
    /\ insert_error # "none" => (outcome = "insert_failed" /\ table = table_before)
    /\ insert_error = "none" =>
         /\ outcome = "success"
         /\ table = Range(processed_data)
         /\ Cardinality(table) = Len(processed_data)
    /\ (\E j, k \in 1..Len(processed_data) :
          j # k /\ processed_data[j].timestamp = processed_data[k].timestamp)
         => outcome = "insert_failed"

\* An INSERT hit the primary key after an earlier INSERT of the same call had
\* put a row into the emptied table that held other rows before.
C5_Witness ==
  /\ pc = "report"
  /\ insert_error = "IntegrityError"
  /\ table_before # {}
  /\ processed_data[1] \notin table_before

\* The rule of C6 for one loop iteration on a row whose timestamp parses and is new: if each
\* of gps_hdt, PosLat, PosLon is blank or numeric text, exactly one row is
\* appended, with None for a blank field and the float value otherwise, and no
\* error is counted; if one of them is not numeric, nothing is appended and
\* the conversion-error count grows by exactly one.
C6_Step ==
  (pc = "process" /\ i <= Len(data)) =>
    LET row   == data[i]
        epoch == convert_time_to_epoch(row["Time"])
        field(c) == IF row[c] \in BlankTexts THEN None ELSE FloatValue(strip(row[c]))
    IN  (epoch # None /\ epoch[1] \notin duplicate_timestamps) =>
          IF \A c \in NumericColumns : row[c] \in BlankTexts \cup NumericTexts
            THEN /\ processed_data' =
                      Append(processed_data,
                             [timestamp |-> epoch[1], latitude |-> field("PosLat"),
                              longitude |-> field("PosLon"), heading |-> field("gps_hdt")])
                 /\ conversion_errors' = conversion_errors
            ELSE /\ processed_data' = processed_data
                 /\ conversion_errors' = conversion_errors + 1

\* C6: every step of a run satisfies C6_Step, the per-row rule for the three
\* numeric fields (blank gives None, not numeric drops the row and counts once).
C6_NumericFields == [][C6_Step]_vars

\* Two rows with new timestamps were processed: one with a blank heading was
\* appended with heading None, one with a field that is not numeric was dropped.
C6_Witness ==
  /\ pc = "process"
  /\ i = 3
  /\ Cardinality(duplicate_timestamps) = 2
  /\ conversion_errors = 1
  /\ Len(processed_data) = 1
  /\ processed_data[1].heading = None
  /\ processed_data[1].latitude # None

\* C7: when a run ends without the writer having committed, location_data
\* exists and holds exactly the rows it held when the run started.
C7_NoCommitNoChange ==
  (RunEnded /\ outcome # "success") => (table_exists /\ table = table_before)

\* A run in which no row survived the transformer ended on a table with rows.
C7_Witness ==
  pc = "done" /\ outcome = "no_valid_data" /\ table_before # {}

\* C8: in a run every stage is called at most once and only after the stages
\* before it succeeded: the initializer first, the writer after the reader
\* returned data, the validator accepted it and the transformer returned a
\* non-empty list, the verifier after the writer succeeded; after a failure no
\* later stage is called.
C8_StagesForwardOnce ==
  /\ \A s \in Stages : ran[s] <= 1
  /\ \A s \in Stages : ran[s] = 1 => ran["create"] = 1
  /\ ran["validate"] = 1 => (ran["read"] = 1 /\ file.kind = "ok")
  /\ ran["process"] = 1 => (ran["validate"] = 1 /\ validate_csv_data(data))
  /\ ran["insert"] = 1 =>
       /\ ran["process"] = 1
       /\ processed_data # <<>>
       /\ i = Len(data) + 1
  /\ ran["verify"] = 1 => (ran["insert"] = 1 /\ outcome = "success")
  /\ outcome = "not_found" => \A s \in Stages \ {"create"} : ran[s] = 0
  /\ outcome = "read_failed" =>
       \A s \in {"validate", "process", "insert", "verify"} : ran[s] = 0
  /\ outcome \in {"no_data_found", "missing_columns"} =>
       \A s \in {"process", "insert", "verify"} : ran[s] = 0
  /\ outcome \in {"no_valid_data", "crashed"} =>
       \A s \in {"insert", "verify"} : ran[s] = 0
  /\ outcome = "insert_failed" => ran["verify"] = 0

\* A run went through all six stages.
C8_Witness == pc = "done" /\ \A s \in Stages : ran[s] = 1

\* C9: every connection an operation opened is released by the time the
\* operation is over, on every path.
C9_ConnectionsReleased == open_conns = 0

\* C10: the transformer's output rows have pairwise distinct timestamps, all
\* in the seen-set, each the conversion of the first source row with that
\* epoch, in source order; the writer never meets a primary-key violation on
\* them, and the table never holds two rows with one timestamp.
C10_DistinctTimestamps ==
  /\ \A j, k \in 1..Len(processed_data) :
       j # k => processed_data[j].timestamp # processed_data[k].timestamp
  /\ \A k \in 1..Len(processed_data) :
       /\ processed_data[k].timestamp \in duplicate_timestamps
       /\ processed_data[k] =
            LocationRow(processed_data[k].timestamp,
                        data[FirstIndex(processed_data[k].timestamp)])
  /\ \A j, k \in 1..Len(processed_data) :
       j < k => FirstIndex(processed_data[j].timestamp)
                  < FirstIndex(processed_data[k].timestamp)
  /\ insert_error # "IntegrityError"
  /\ \A x, y \in table : x.timestamp = y.timestamp => x = y

\* A file with a repeated timestamp went through the writer: one row stored.
C10_Witness ==
  /\ pc = "done"
  /\ outcome = "success"
  /\ duplicates_found = 1
  /\ Cardinality(table) = 1

====
